---- MODULE Spec2Model ----
(***************************************************************************)
(* Model of motors.c: discovery of brushless motor controllers on the I2C  *)
(* bus (DetectMotors), the setpoint store (SetMotorSetpoint) and the       *)
(* callback-chained setpoint transmission (TxMotorSetpoints,               *)
(* TxNextMotorSetpoint, TxMotorSetpoint).                                  *)
(***************************************************************************)
EXTENDS Integers, Sequences, FiniteSets, TLC

\* ---------------------------------------------------------------------------
\* Program constants

MOTORS_MAX == 8
MOTORS_BASE_ADDRESS == 82

BLC_STATUS_UNKNOWN == 0
BLC_STATUS_MISMATCH == 1
BLC_STATUS_STARTING == 40
BLC_STATUS_V3_FAST_READY == 248
BLC_STATUS_V3_READY == 249
BLC_STATUS_V2_READY == 250
BLC_STATUS_RUNNING_REDUNDANT == 254
BLC_STATUS_RUNNING == 255

BLC_FEATURE_EXTENDED_STATUS == 1
BLC_FEATURE_V3 == 2
BLC_FEATURE_20KHz == 4

\* enum BLCErrorBitfield is declared in motors.h: three distinct single bits.
BLC_ERROR_INCONSISTENT_SETTINGS == 1
BLC_ERROR_MISSING_MOTOR == 2
BLC_ERROR_EXTRA_MOTOR == 4

SIZEOF_UINT8 == 1
SIZEOF_UINT16 == 2

\* ---------------------------------------------------------------------------
\* Bounds of the explored environment

\* eeprom.n_motors is a byte; the configured counts explored are 0..MaxNMotors
\* (one more than MOTORS_MAX, so that an over-large count is included).
MaxNMotors == 9

\* No status code read in the current pass yet (history only).
NoCode == 0 - 1

\* No SetMotorSetpoint call recorded yet (history only).
NoCall == 0 - 1

\* Status codes a responding controller may report.
AllStatusCodes ==
  { BLC_STATUS_UNKNOWN, BLC_STATUS_V3_FAST_READY, BLC_STATUS_V3_READY,
    BLC_STATUS_V2_READY, BLC_STATUS_RUNNING }

\* ---------------------------------------------------------------------------
\* C integer operators

RECURSIVE BitAnd(_, _)
BitAnd(a, b) ==
  IF a = 0 \/ b = 0 THEN 0
  ELSE (a % 2) * (b % 2) + 2 * BitAnd(a \div 2, b \div 2)

BitOr(a, b) == a + b - BitAnd(a, b)

\* C's logical negation: !x
LogicalNot(x) == IF x = 0 THEN 1 ELSE 0

\* uint8_t conversion
U8(x) == x % 256

\* (1 << i)
Shl1(i) == 2^i

HasBit(field, bit) == BitAnd(field, bit) # 0

\* ---------------------------------------------------------------------------
\* State

VARIABLES
  blc_error_bitfield_,    \* static uint8_t
  blc_feature_bitfield_,  \* static uint8_t
  n_motors_,              \* static uint8_t
  setpoint_length_,       \* static uint8_t
  comms_in_progress_,     \* static uint8_t: slot of the ongoing transaction
  setpoints_,             \* struct MotorSetpoint setpoints_[MOTORS_MAX]
  sp_address,             \* arguments of the last recorded SetMotorSetpoint
  sp_value,               \* call, NoCall before it (history only)
  eeprom_n_motors,        \* eeprom.n_motors, the persisted configuration
  i2c_pending,            \* transactions handed to the transport, not completed
  i2c_sent,               \* bytes of the oldest of them put on the bus so far
  error_bitfield_result,  \* what the last BLCErrorBitfield() returned
  tx_log,                 \* slots of the transactions issued since the last
                          \* call of TxMotorSetpoints, in order of issue
  tx_count,               \* n_motors_ at that call
  out_of_bounds_write,    \* the transport stored a response outside blc_status_
  i2c_error,              \* what I2CError() returns: last transaction failed
  pc,                     \* "idle", or position inside DetectMotors
  i,                      \* DetectMotors: loop index
  motors,                 \* DetectMotors: bitfield of motors present
  blc_status_code,        \* DetectMotors: reference status code
  \* history of the current DetectMotors pass
  first_code,             \* status code of the first slot that responded
  later_differs,          \* a later responder's code differed from first_code
  error0,                 \* blc_error_bitfield_ when the pass started
  feature0,               \* blc_feature_bitfield_ when the pass started
  probe_log,              \* bus addresses probed so far, in order
  responded               \* bitfield of the slots whose probe had no error

vars == << blc_error_bitfield_, blc_feature_bitfield_, n_motors_,
           setpoint_length_, comms_in_progress_, setpoints_, sp_address,
           sp_value, eeprom_n_motors, i2c_pending, i2c_sent, error_bitfield_result, tx_log, tx_count,
           out_of_bounds_write, i2c_error, pc, i, motors,
           blc_status_code, first_code, later_differs, error0, feature0,
           probe_log, responded >>

txVars == << comms_in_progress_, i2c_pending, i2c_sent, tx_log, tx_count,
            out_of_bounds_write >>

setpointCall == << sp_address, sp_value >>

driverVars == << blc_error_bitfield_, blc_feature_bitfield_, n_motors_,
                 setpoint_length_ >>

detectLocals == << i, motors, blc_status_code, first_code, later_differs,
                   error0, feature0, probe_log, responded >>

Init ==
  /\ blc_error_bitfield_ = 0
  /\ blc_feature_bitfield_ = 0
  /\ n_motors_ = 0
  /\ setpoint_length_ = SIZEOF_UINT8
  /\ comms_in_progress_ = 0
  /\ setpoints_ = [a \in 0..(MOTORS_MAX - 1) |->
                     [bits_11_to_3 |-> 0, bits_2_to_0 |-> 0]]
  /\ sp_address = NoCall
  /\ sp_value = NoCall
  /\ eeprom_n_motors \in 0..MaxNMotors
  /\ i2c_pending = << >>
  /\ i2c_sent = << >>
  /\ error_bitfield_result = 0
  /\ tx_log = << >>
  /\ tx_count = 0
  /\ out_of_bounds_write = FALSE
  /\ i2c_error = FALSE
  /\ pc = "idle"
  /\ i = 0
  /\ motors = 0
  /\ blc_status_code = BLC_STATUS_UNKNOWN
  /\ first_code = NoCode
  /\ later_differs = FALSE
  /\ error0 = 0
  /\ feature0 = 0
  /\ probe_log = << >>
  /\ responded = 0

\* ---------------------------------------------------------------------------
\* DetectMotors

\* Lines 125-128: the new reference code after reading a responder's code.
NextStatusCode(ref, code) ==
  IF ref = BLC_STATUS_UNKNOWN THEN code ELSE ref

\* The comparison without the test for a reference not yet taken.
StatusMismatch_NoSentinel(ref, code) == code # ref

\* Lines 125-128: does this responder raise "inconsistent settings"?
StatusMismatch(ref, code) ==
  ref # BLC_STATUS_UNKNOWN /\ code # ref

\* Lines 133-145: feature bits or-ed in for a reference code (fallthrough).
\* Variant: every case of the switch ended by a break.
FeatureCascade_NoFallThrough(code) ==
  IF code = BLC_STATUS_V3_FAST_READY THEN BLC_FEATURE_20KHz
  ELSE IF code = BLC_STATUS_V3_READY THEN BLC_FEATURE_V3
  ELSE IF code = BLC_STATUS_V2_READY THEN BLC_FEATURE_EXTENDED_STATUS
  ELSE 0

FeatureCascade(code) ==
  IF code = BLC_STATUS_V3_FAST_READY
    THEN BitOr(BLC_FEATURE_20KHz,
               BitOr(BLC_FEATURE_V3, BLC_FEATURE_EXTENDED_STATUS))
  ELSE IF code = BLC_STATUS_V3_READY
    THEN BitOr(BLC_FEATURE_V3, BLC_FEATURE_EXTENDED_STATUS)
  ELSE IF code = BLC_STATUS_V2_READY
    THEN BLC_FEATURE_EXTENDED_STATUS
  ELSE 0

\* Lines 133-145: the setpoint length after the switch.
SetpointLengthAfter(len, code) ==
  IF code \in { BLC_STATUS_V3_FAST_READY, BLC_STATUS_V3_READY,
                BLC_STATUS_V2_READY }
    THEN SIZEOF_UINT16 ELSE len

\* The test with the negation of the presence bitmap dropped.
MissingMotorTest_NoNegation(n, m) == BitAnd(Shl1(n) - 1, m) # 0

\* Line 150: ((1 << n_motors_) - 1) & !motors
MissingMotorTest(n, m) == BitAnd(Shl1(n) - 1, LogicalNot(m)) # 0

\* Line 152: motors & !((1 << n_motors_) - 1)
ExtraMotorTest(n, m) == BitAnd(m, LogicalNot(Shl1(n) - 1)) # 0

\* Plain assignment, field = bit, in place of the or-assignment.
OrBit_Assign(field, bit) == bit

\* field |= bit
OrBit(field, bit) == BitOr(field, bit)

\* Lines 105-113: entry of DetectMotors; the locals are initialised.  The
\* probes are synchronous and use the same transport as the transmission
\* chain, so the main loop enters only when no transaction is pending.
DetectMotors_Begin ==
  /\ pc = "idle"
  /\ i2c_pending = << >>
  /\ pc' = "probe"
  /\ i' = 0
  /\ motors' = 0
  /\ blc_status_code' = BLC_STATUS_UNKNOWN
  /\ first_code' = NoCode
  /\ later_differs' = FALSE
  /\ error0' = blc_error_bitfield_
  /\ feature0' = blc_feature_bitfield_
  /\ probe_log' = << >>
  /\ responded' = 0
  /\ UNCHANGED << driverVars, eeprom_n_motors, i2c_error, txVars, setpoints_, setpointCall,
                  error_bitfield_result >>

\* Variant: the byte offset i in place of the shifted index.
ProbeAddress_NoShift(slot) == MOTORS_BASE_ADDRESS + slot

\* Line 116: the bus address probed for a slot, MOTORS_BASE_ADDRESS + (i << 1).
ProbeAddress(slot) == MOTORS_BASE_ADDRESS + 2 * slot

\* Variant: the status record is read whatever the transport reports.
ProbeCompleted_IgnoreError(failed) == TRUE

\* Line 120: if (!I2CError()), the probe completed without transport error.
ProbeCompleted(failed) == ~failed

\* What the status_code of blc_status_[i] may hold after a failed probe: the
\* transport stored no response, the record is stale or unspecified.
StaleStatusCodes == { BLC_STATUS_STARTING, BLC_STATUS_V3_FAST_READY }

\* Lines 114-130: one iteration of the probe loop.  The transaction is
\* synchronous (lines 116-118 issue it and wait for its completion); `ok` is
\* whether the controller of slot i answered, `code` the status_code it
\* reported and `stale` what the record holds otherwise.
\* With Contiguous the bus is populated from slot 0 upwards without a gap:
\* slot i can only answer when every lower slot did.
DetectMotors_Probe(Contiguous, StatusCodes) ==
  /\ pc = "probe"
  /\ i < MOTORS_MAX
  /\ \E ok \in BOOLEAN, code \in StatusCodes, stale \in StaleStatusCodes :
       LET status_code == IF ok THEN code ELSE stale
           completed == ProbeCompleted(~ok)
           m == IF completed THEN BitOr(motors, Shl1(i)) ELSE motors
       IN
       /\ ~ok => code = CHOOSE c \in StatusCodes : TRUE
       /\ ok => stale = CHOOSE c \in StaleStatusCodes : TRUE
       /\ (Contiguous /\ ok) => motors = Shl1(i) - 1
       /\ i2c_error' = ~ok
       /\ motors' = m
       /\ blc_status_code' =
            IF completed THEN NextStatusCode(blc_status_code, status_code)
            ELSE blc_status_code
       /\ blc_error_bitfield_' =
            IF completed /\ StatusMismatch(blc_status_code, status_code)
              THEN OrBit(blc_error_bitfield_, BLC_ERROR_INCONSISTENT_SETTINGS)
              ELSE blc_error_bitfield_
       /\ first_code' = IF ok /\ first_code = NoCode THEN code ELSE first_code
       /\ later_differs' =
            (later_differs \/ (ok /\ first_code # NoCode /\ code # first_code))
       /\ responded' = IF ok THEN BitOr(responded, Shl1(i)) ELSE responded
  /\ probe_log' = Append(probe_log, ProbeAddress(i))
  /\ i' = i + 1
  /\ UNCHANGED << blc_feature_bitfield_, n_motors_, setpoint_length_,
                  eeprom_n_motors, pc, error0, feature0, txVars, setpoints_, setpointCall,
                  error_bitfield_result >>

\* Lines 132-153: the feature switch, the EEPROM read and the count checks.
DetectMotors_Finish ==
  /\ pc = "probe"
  /\ i = MOTORS_MAX
  /\ blc_feature_bitfield_' =
       BitOr(blc_feature_bitfield_, FeatureCascade(blc_status_code))
  /\ setpoint_length_' = SetpointLengthAfter(setpoint_length_, blc_status_code)
  /\ n_motors_' = eeprom_n_motors
  /\ LET e1 == IF MissingMotorTest(eeprom_n_motors, motors)
                 THEN OrBit(blc_error_bitfield_, BLC_ERROR_MISSING_MOTOR)
                 ELSE blc_error_bitfield_
     IN blc_error_bitfield_' =
          IF ExtraMotorTest(eeprom_n_motors, motors)
            THEN OrBit(e1, BLC_ERROR_EXTRA_MOTOR) ELSE e1
  /\ pc' = "done"
  /\ UNCHANGED << eeprom_n_motors, i2c_error, detectLocals, txVars,
                  setpoints_, setpointCall, error_bitfield_result >>

\* Line 154: return; the locals go out of scope.
DetectMotors_Return ==
  /\ pc = "done"
  /\ pc' = "idle"
  /\ i' = 0
  /\ motors' = 0
  /\ blc_status_code' = BLC_STATUS_UNKNOWN
  /\ first_code' = NoCode
  /\ later_differs' = FALSE
  /\ error0' = 0
  /\ feature0' = 0
  /\ probe_log' = << >>
  /\ responded' = 0
  /\ UNCHANGED << driverVars, eeprom_n_motors, i2c_error, txVars, setpoints_, setpointCall,
                  error_bitfield_result >>

\* ---------------------------------------------------------------------------
\* BLCErrorBitfield (lines 92-95)

BLCErrorBitfield == blc_error_bitfield_

\* A call from the main loop; the returned value is kept for inspection.
BLCErrorBitfield_Call ==
  /\ pc = "idle"
  /\ error_bitfield_result' = BLCErrorBitfield
  /\ UNCHANGED << driverVars, txVars, setpoints_, setpointCall, eeprom_n_motors, i2c_error,
                  pc, detectLocals >>

\* ---------------------------------------------------------------------------
\* SetMotorSetpoint (lines 157-162)

\* Arguments explored: one slot in range, one out of range; setpoints within
\* and beyond 11 bits.
SetpointAddresses == { 1, MOTORS_MAX }
SetpointValues == { 2047, 2053 }

\* Largest value of the uint16_t parameter setpoint.
UINT16_MAX == 65535

\* Variant: the cast applied before the shift, (uint8_t)setpoint >> 3.
PackSetpoint_CastFirst(setpoint) ==
  [ bits_11_to_3 |-> U8(setpoint) \div 8,
    bits_2_to_0 |-> BitAnd(U8(setpoint), 7) ]

\* Lines 160-161: the packed form of a 16-bit setpoint.
PackSetpoint(setpoint) ==
  [ bits_11_to_3 |-> U8(setpoint \div 8),
    bits_2_to_0 |-> BitAnd(U8(setpoint), 7) ]

\* Variant: no range check, the index wrapping into the array.
SetMotorSetpoint_NoRangeCheck(address, setpoint) ==
  [setpoints_ EXCEPT ![address % MOTORS_MAX] = PackSetpoint(setpoint)]

SetMotorSetpoint(address, setpoint) ==
  IF address >= MOTORS_MAX THEN setpoints_
  ELSE [setpoints_ EXCEPT ![address] = PackSetpoint(setpoint)]

\* A call from the main loop, which does not run while DetectMotors blocks.
SetMotorSetpoint_Call ==
  /\ pc = "idle"
  /\ \E address \in SetpointAddresses, setpoint \in SetpointValues :
       setpoints_' = SetMotorSetpoint(address, setpoint)
  /\ UNCHANGED << driverVars, txVars, eeprom_n_motors, i2c_error,
                  error_bitfield_result, pc, detectLocals, setpointCall >>

\* The same call with its arguments recorded, drawn from the given sets.
SetMotorSetpoint_Recorded(Addresses, Setpoints) ==
  /\ pc = "idle"
  /\ \E address \in Addresses, setpoint \in Setpoints :
       /\ setpoints_' = SetMotorSetpoint(address, setpoint)
       /\ sp_address' = address
       /\ sp_value' = setpoint
  /\ UNCHANGED << driverVars, txVars, eeprom_n_motors, i2c_error,
                  error_bitfield_result, pc, detectLocals >>

\* ---------------------------------------------------------------------------
\* Setpoint transmission (lines 165-187)

\* Lines 43-47 and 184: a stored setpoint seen through the uint8_t pointer
\* given to the transport, in the order of the struct's members.
SetpointBytes(stored) == << stored.bits_11_to_3, stored.bits_2_to_0 >>

\* The stored setpoint of a slot; slots outside the array have none.
StoredAt(address) ==
  IF address < MOTORS_MAX THEN setpoints_[address]
  ELSE [ bits_11_to_3 |-> 0, bits_2_to_0 |-> 0 ]

\* Lines 181-187: TxMotorSetpoint hands one transaction to the transport.
\* `slot` stands for the two pointers &setpoints_[address] and
\* &blc_status_[address]; the bus address is a byte.  Nothing keeps address
\* below MOTORS_MAX: for a larger address both pointers lie outside their
\* arrays.  The transport receives the pointer, not the bytes; at_issue keeps
\* what the slot held at this call (history only).
TxMotorSetpoint(address, pending) ==
  Append(pending,
         [ slot |-> address,
           bus_address |-> U8(MOTORS_BASE_ADDRESS + 2 * address),
           tx_length |-> setpoint_length_,
           at_issue |-> StoredAt(address) ])

\* The cursor started at n_motors_ instead of n_motors_ - 1.
FirstCursor_OffByOne(n) == U8(n)

\* Line 167: n_motors_ - 1, stored in a uint8_t.
FirstCursor(n) == U8(n - 1)

\* The test with a pre-decrement, `if (--comms_in_progress_)`.
ChainContinues_PreDecrement(cursor, failed) == U8(cursor - 1) # 0

\* The test abandoning the chain after a failed transaction.
ChainContinues_StopOnError(cursor, failed) == cursor # 0 /\ ~failed

\* Line 177: the value tested by `if (comms_in_progress_--)`; the transport's
\* error flag is not consulted.
ChainContinues(cursor, failed) == cursor # 0

\* Line 177: the cursor after the post-decrement.
NextCursor(cursor) == U8(cursor - 1)

\* Lines 165-169.  The caller starts a chain only when the previous one has
\* ended and DetectMotors is not running.
TxMotorSetpoints ==
  /\ pc = "idle"
  /\ i2c_pending = << >>
  /\ comms_in_progress_' = FirstCursor(n_motors_)
  /\ i2c_pending' = TxMotorSetpoint(FirstCursor(n_motors_), i2c_pending)
  /\ i2c_sent' = << >>
  /\ tx_log' = << FirstCursor(n_motors_) >>
  /\ tx_count' = n_motors_
  /\ UNCHANGED << out_of_bounds_write, driverVars, setpoints_, setpointCall, eeprom_n_motors, i2c_error,
                  error_bitfield_result, pc, detectLocals >>

\* Bus addresses of the controllers (line 116).
ControllerAddresses ==
  { MOTORS_BASE_ADDRESS + 2 * a : a \in 0..(MOTORS_MAX - 1) }

\* The transport: a transaction completes with or without error and the
\* callback runs in both cases; only a controller address can answer.
CompletionOutcomes(bus_address) ==
  IF bus_address \in ControllerAddresses THEN BOOLEAN ELSE { TRUE }

\* What a read through a pointer beyond setpoints_ may return.
GarbageBytes == { 0, 255 }

\* The transport puts the next byte of the pending transaction on the bus,
\* reading it through the pointer of line 184 at this moment; only a
\* controller acknowledges its address and so lets the bytes follow.
I2CTransmitByte ==
  /\ i2c_pending # << >>
  /\ LET t == i2c_pending[1]
         k == Len(i2c_sent) + 1
     IN /\ t.bus_address \in ControllerAddresses
        /\ k <= t.tx_length
        /\ \E byte \in IF t.slot < MOTORS_MAX
                          THEN { SetpointBytes(setpoints_[t.slot])[k] }
                          ELSE GarbageBytes :
             i2c_sent' = Append(i2c_sent, byte)
  /\ UNCHANGED << comms_in_progress_, i2c_pending, tx_log, tx_count, out_of_bounds_write,
                  driverVars, setpoints_, setpointCall, eeprom_n_motors,
                  i2c_error, error_bitfield_result, pc, detectLocals >>

\* Lines 175-178: the transport completes the oldest pending transaction and
\* calls TxNextMotorSetpoint.  A response received for a slot >= MOTORS_MAX
\* is stored 9 * slot bytes past the start of blc_status_, outside the array;
\* the event is recorded, the memory it overwrites is not part of this state.
TxNextMotorSetpoint ==
  /\ i2c_pending # << >>
  /\ \E failed \in CompletionOutcomes(i2c_pending[1].bus_address) :
       /\ ~failed => Len(i2c_sent) = i2c_pending[1].tx_length
       /\ i2c_error' = failed
       /\ out_of_bounds_write' =
            (out_of_bounds_write
               \/ (~failed /\ i2c_pending[1].slot >= MOTORS_MAX))
       /\ IF ChainContinues(comms_in_progress_, failed)
            THEN /\ i2c_pending' =
                      TxMotorSetpoint(NextCursor(comms_in_progress_),
                                      Tail(i2c_pending))
                 /\ tx_log' = Append(tx_log, NextCursor(comms_in_progress_))
            ELSE /\ i2c_pending' = Tail(i2c_pending)
                 /\ tx_log' = tx_log
  /\ comms_in_progress_' = NextCursor(comms_in_progress_)
  /\ i2c_sent' = << >>
  /\ UNCHANGED << driverVars, setpoints_, setpointCall, eeprom_n_motors, tx_count,
                  error_bitfield_result, pc, detectLocals >>

\* ---------------------------------------------------------------------------
\* The driver with all its operations.  Discovery runs on a bus populated
\* without gaps whose controllers report one of two generations.

BusStatusCodes == { BLC_STATUS_V3_FAST_READY, BLC_STATUS_V2_READY }

Next ==
  \/ DetectMotors_Begin
  \/ DetectMotors_Probe(TRUE, BusStatusCodes)
  \/ DetectMotors_Finish
  \/ DetectMotors_Return
  \/ BLCErrorBitfield_Call
  \/ SetMotorSetpoint_Call
  \/ TxMotorSetpoints
  \/ I2CTransmitByte
  \/ TxNextMotorSetpoint

Spec == Init /\ [][Next]_vars

\* The same with a transport that completes every transaction it is given.
SpecLive == Spec /\ WF_vars(TxNextMotorSetpoint)

\* ---------------------------------------------------------------------------
\* Discovery alone, on a bus where any subset of slots may answer, each with
\* any of the status codes.

NextDetect ==
  \/ DetectMotors_Begin
  \/ DetectMotors_Probe(FALSE, AllStatusCodes)
  \/ DetectMotors_Finish
  \/ DetectMotors_Return

SpecDetect == Init /\ [][NextDetect]_vars

\* ---------------------------------------------------------------------------
\* Properties of a discovery pass, read at pc = "done": the pass has run
\* lines 105-153 and its locals are still in scope.

PassDone == pc = "done"

\* Every slot that responded in this pass reported the same status code.
AllSameCode == ~later_differs

\* The presence bitmap with exactly the slots 0..n-1 set.
ContiguousMask(n) == Shl1(n) - 1

\* C2: with a configured count N in 1..MOTORS_MAX, a pass started with an
\* empty error bitfield in which exactly one of the slots 0..N-1 does not
\* respond, the others respond with identical codes and no slot >= N
\* responds, ends with "missing motor" set and "extra motor" not set.
C2_OneMissingSetsMissing ==
  (/\ PassDone
   /\ error0 = 0
   /\ n_motors_ \in 1..MOTORS_MAX
   /\ \E j \in 0..(n_motors_ - 1) :
        motors = ContiguousMask(n_motors_) - Shl1(j)
   /\ AllSameCode)
  => (/\ HasBit(blc_error_bitfield_, BLC_ERROR_MISSING_MOTOR)
      /\ ~HasBit(blc_error_bitfield_, BLC_ERROR_EXTRA_MOTOR))

\* C3: with a configured count N in 0..MOTORS_MAX-1, a pass started with an
\* empty error bitfield in which all slots 0..N-1 respond and at least one
\* slot >= N responds, all with identical codes, ends with the error
\* bitfield equal to "extra motor" alone.
C3_ExtraSetsExtra ==
  (/\ PassDone
   /\ error0 = 0
   /\ n_motors_ \in 0..(MOTORS_MAX - 1)
   /\ motors % Shl1(n_motors_) = ContiguousMask(n_motors_)
   /\ motors >= Shl1(n_motors_)
   /\ AllSameCode)
  => blc_error_bitfield_ = BLC_ERROR_EXTRA_MOTOR

\* C4: the status code of the first slot that responds is the reference of
\* the pass, and whenever a later responder reports a different code the
\* "inconsistent settings" bit is set at the end of the pass.
C4_FirstResponderIsReference ==
  PassDone =>
    /\ (first_code # NoCode => blc_status_code = first_code)
    /\ (later_differs =>
          HasBit(blc_error_bitfield_, BLC_ERROR_INCONSISTENT_SETTINGS))

\* The feature bitfield and setpoint width the specification assigns to a
\* reference status code.
ClaimedFeatures(code) ==
  CASE code = BLC_STATUS_V3_FAST_READY -> 7
    [] code = BLC_STATUS_V3_READY -> 3
    [] code = BLC_STATUS_V2_READY -> 1
    [] OTHER -> 0

ClaimedWidth(code) ==
  IF code \in { BLC_STATUS_V3_FAST_READY, BLC_STATUS_V3_READY,
                BLC_STATUS_V2_READY } THEN 2 ELSE 1

\* C5: after every pass the feature bitfield and the setpoint width are the
\* ones given by that pass's reference status code.
C5_FeaturesOfThisPass ==
  PassDone =>
    /\ blc_feature_bitfield_ = ClaimedFeatures(blc_status_code)
    /\ setpoint_length_ = ClaimedWidth(blc_status_code)

\* C6: with a configured count N in 0..MOTORS_MAX, a pass started with an
\* empty error bitfield in which exactly the slots 0..N-1 respond, all with
\* the same code, leaves the error bitfield 0; from the initial feature
\* state, N = 3 and "v2-ready" give features = extended-status only, width 2
\* and presence 0b111.
C6_ExactCountNoError ==
  (/\ PassDone
   /\ error0 = 0
   /\ n_motors_ \in 0..MOTORS_MAX
   /\ motors = ContiguousMask(n_motors_)
   /\ AllSameCode)
  => /\ blc_error_bitfield_ = 0
     /\ (feature0 = 0 /\ n_motors_ = 3 /\ first_code = BLC_STATUS_V2_READY)
          => (/\ blc_feature_bitfield_ = BLC_FEATURE_EXTENDED_STATUS
              /\ setpoint_length_ = 2
              /\ motors = 7)

C6_Witness ==
  /\ PassDone
  /\ error0 = 0
  /\ feature0 = 0
  /\ n_motors_ = 3
  /\ motors = 7
  /\ first_code = BLC_STATUS_V2_READY
  /\ AllSameCode
  /\ blc_error_bitfield_ = 0

\* C7: a pass in which every responding slot reports the same status code
\* does not set "inconsistent settings": clear before the pass, clear after.
C7_SameCodeNeverInconsistent ==
  (/\ PassDone
   /\ AllSameCode
   /\ ~HasBit(error0, BLC_ERROR_INCONSISTENT_SETTINGS))
  => ~HasBit(blc_error_bitfield_, BLC_ERROR_INCONSISTENT_SETTINGS)

C7_Witness ==
  /\ PassDone
  /\ AllSameCode
  /\ motors = 37
  /\ first_code = BLC_STATUS_V3_READY
  /\ error0 = BLC_ERROR_MISSING_MOTOR
  /\ ~HasBit(blc_error_bitfield_, BLC_ERROR_INCONSISTENT_SETTINGS)

\* C14: every DetectMotors pass issues exactly MOTORS_MAX probes, one per slot
\* in ascending order 0..7, the probe of slot k to MOTORS_BASE_ADDRESS + 2k,
\* whatever the configured count and whichever slots respond; a failed probe
\* neither ends nor shortens the pass, and no probe is outstanding when the
\* next one is issued.
C14_ProbesEverySlotInOrder ==
  /\ pc # "idle" =>
       /\ Len(probe_log) = i
       /\ i <= MOTORS_MAX
       /\ \A k \in 1..Len(probe_log) :
            probe_log[k] = MOTORS_BASE_ADDRESS + 2 * (k - 1)
       /\ i2c_pending = << >>
  /\ PassDone => Len(probe_log) = MOTORS_MAX

\* A pass has ended in which the probes of slots 0, 1 and 3..7 failed.
C14_Witness ==
  /\ PassDone
  /\ responded = 4
  /\ i2c_error
  /\ probe_log = << 82, 84, 86, 88, 90, 92, 94, 96 >>

\* C15: a slot is counted as present exactly when its probe completed without
\* transport error, and the status record of a slot whose probe failed takes
\* no part in the outcome: it is neither taken as the reference nor compared
\* with it, so its stale content neither sets "inconsistent settings" nor
\* changes the features or the setpoint width.
C15_FailedProbeIgnored ==
  PassDone =>
    /\ motors = responded
    /\ first_code = NoCode =>
         /\ blc_status_code = BLC_STATUS_UNKNOWN
         /\ blc_feature_bitfield_ = feature0
    /\ first_code \notin { NoCode, BLC_STATUS_UNKNOWN } =>
         blc_status_code = first_code
    /\ blc_status_code \in AllStatusCodes
    /\ ~later_differs =>
         ( HasBit(blc_error_bitfield_, BLC_ERROR_INCONSISTENT_SETTINGS)
           <=> HasBit(error0, BLC_ERROR_INCONSISTENT_SETTINGS) )

\* A pass has ended in which the probe of slot 0 failed and slots 1 and 2
\* answered with the same code, on a driver without features or errors.
C15_Witness ==
  /\ PassDone
  /\ responded = 6
  /\ first_code = BLC_STATUS_V2_READY
  /\ ~later_differs
  /\ feature0 = 0
  /\ error0 = 0
  /\ eeprom_n_motors = 2

\* ---------------------------------------------------------------------------
\* The setpoint store alone: calls with slots on both sides of MOTORS_MAX
\* (the parameter is a uint8_t) and setpoints on both sides of 11 bits.

StoreAddresses == { 0, MOTORS_MAX - 1, MOTORS_MAX, MOTORS_MAX + 1, 255 }
StoreSetpoints == { 0, 5, 8, 2047, 2048, 2053, UINT16_MAX }

NextSetpoint == SetMotorSetpoint_Recorded(StoreAddresses, StoreSetpoints)

SpecSetpoint == Init /\ [][NextSetpoint]_vars

\* The first call after construction, over every 16-bit setpoint.

PackAddresses == { 0, MOTORS_MAX - 1 }

SetMotorSetpoint_First ==
  /\ sp_address = NoCall
  /\ SetMotorSetpoint_Recorded(PackAddresses, 0..UINT16_MAX)

SpecPack == Init /\ [][SetMotorSetpoint_First]_vars

\* ---------------------------------------------------------------------------
\* Properties of the setpoint store

\* C11: a SetMotorSetpoint call with a slot of MOTORS_MAX or more changes
\* nothing, whatever the setpoint; a call with a slot below MOTORS_MAX changes
\* the stored setpoint of that slot at most, and no call changes any other
\* state of the driver.
C11_SetpointFrame ==
  [][ /\ UNCHANGED << driverVars, txVars, eeprom_n_motors, i2c_error,
                      error_bitfield_result, pc, detectLocals >>
      /\ sp_address' >= MOTORS_MAX => setpoints_' = setpoints_
      /\ \A a \in 0..(MOTORS_MAX - 1) :
           a # sp_address' => setpoints_'[a] = setpoints_[a] ]_vars

\* An out-of-range call has been made on a store that holds a setpoint in its
\* last slot.
C11_Witness ==
  /\ sp_address = MOTORS_MAX
  /\ sp_value = 2047
  /\ setpoints_[MOTORS_MAX - 1] = PackSetpoint(5)
  /\ setpoints_[0] = PackSetpoint(2047)

\* C12: after SetMotorSetpoint(slot, v) on a slot in range, for every 16-bit
\* v, the stored pair satisfies high * 8 + low = v mod 2048 with
\* low = v mod 8 in 0..7 and high = (v div 8) mod 256: setpoints up to 2047
\* are stored exactly, larger ones lose the bits above bit 10.
C12_PackedSetpoint ==
  sp_address \in 0..(MOTORS_MAX - 1) =>
    LET stored == setpoints_[sp_address]
        high == stored.bits_11_to_3
        low == stored.bits_2_to_0
    IN /\ high * 8 + low = sp_value % 2048
       /\ low = sp_value % 8
       /\ low \in 0..7
       /\ high = (sp_value \div 8) % 256
       /\ sp_value <= 2047 => high * 8 + low = sp_value

\* The setpoint 2053 = 2048 + 5 has been stored as 5.
C12_Witness ==
  /\ sp_address = MOTORS_MAX - 1
  /\ sp_value = 2053
  /\ setpoints_[sp_address] = [ bits_11_to_3 |-> 0, bits_2_to_0 |-> 5 ]

\* ---------------------------------------------------------------------------
\* Properties of the transmission chain

ChainActive == i2c_pending # << >>

LastIssued == tx_log[Len(tx_log)]

\* C1: for a motor count N in 1..MOTORS_MAX stored by discovery, a call of
\* TxMotorSetpoints followed by the completion callbacks issues exactly N
\* transactions, to the slots N-1, N-2, ..., 0 in this order, each once, and
\* never has two transactions in flight: the one pending is the last issued.
C1_ChainVisitsEverySlotOnce ==
  (tx_count \in 1..MOTORS_MAX /\ tx_log # << >>) =>
    /\ Len(i2c_pending) <= 1
    /\ Len(tx_log) <= tx_count
    /\ \A j \in 1..Len(tx_log) : tx_log[j] = tx_count - j
    /\ ChainActive => i2c_pending[1].slot = LastIssued
    /\ ~ChainActive => Len(tx_log) = tx_count

C1_Witness ==
  /\ tx_count = MOTORS_MAX
  /\ ~ChainActive
  /\ tx_log = << 7, 6, 5, 4, 3, 2, 1, 0 >>

\* C8: no step clears a bit of the error bitfield, so the bitfield at the end
\* of a discovery pass contains the bitfield from before it; a step that
\* changes the value returned by BLCErrorBitfield makes it the current
\* bitfield and changes nothing else.
C8_ErrorBitsAccumulate ==
  /\ [][ /\ BitAnd(blc_error_bitfield_, blc_error_bitfield_')
             = blc_error_bitfield_
         /\ error_bitfield_result' # error_bitfield_result =>
              /\ error_bitfield_result' = blc_error_bitfield_
              /\ UNCHANGED << driverVars, txVars, setpoints_, setpointCall, eeprom_n_motors,
                              i2c_error, pc, detectLocals >> ]_vars
  /\ [](PassDone => BitAnd(error0, blc_error_bitfield_) = error0)

C8_Witness ==
  /\ PassDone
  /\ error0 = BLC_ERROR_INCONSISTENT_SETTINGS
  /\ error_bitfield_result = BLC_ERROR_INCONSISTENT_SETTINGS
  /\ blc_error_bitfield_ =
       BLC_ERROR_INCONSISTENT_SETTINGS + BLC_ERROR_MISSING_MOTOR

\* C9: when the transport completes every transaction, an active chain
\* leads to the chain having ended with slot 0 as the last slot issued;
\* completing slot 0's transaction issues nothing more; and as long as the
\* pending transaction is not completed, the cursor stays where it is and no
\* further transaction is issued.
C9_ChainTerminatesOrStalls ==
  /\ ChainActive ~> (~ChainActive /\ tx_log # << >> /\ LastIssued = 0)
  /\ [][ /\ (ChainActive /\ i2c_pending[1].slot = 0
                /\ i2c_pending' # i2c_pending)
               => (i2c_pending' = << >> /\ tx_log' = tx_log)
         /\ (ChainActive /\ i2c_pending' = i2c_pending)
               => (comms_in_progress_' = comms_in_progress_
                   /\ tx_log' = tx_log) ]_vars

C9_Witness ==
  /\ ~ChainActive
  /\ tx_count = 3
  /\ tx_log = << 2, 1, 0 >>
  /\ comms_in_progress_ = 255

\* C10: a step of the transmission (one that changes the pending
\* transactions or the cursor) leaves the error bitfield, the feature
\* bitfield, the motor count and the setpoint width unchanged, and the
\* completion of a failed transaction for a slot other than 0 leaves exactly
\* the transaction of the next lower slot pending.
C10_ChainIgnoresErrors ==
  [][ /\ (i2c_pending' # i2c_pending
            \/ comms_in_progress_' # comms_in_progress_)
           => UNCHANGED driverVars
      /\ (ChainActive /\ i2c_pending' # i2c_pending /\ i2c_error'
            /\ i2c_pending[1].slot # 0)
           => (/\ Len(i2c_pending') = 1
               /\ i2c_pending'[1].slot = i2c_pending[1].slot - 1
               /\ comms_in_progress_' = i2c_pending[1].slot - 1) ]_vars

C10_Witness ==
  /\ ChainActive
  /\ i2c_error
  /\ tx_count = 3
  /\ tx_log = << 2, 1 >>
  /\ i2c_pending[1].slot = 1

\* C13: every transaction the pipeline issues targets a slot in
\* 0..MOTORS_MAX-1, also when TxMotorSetpoints is called before any discovery
\* pass, with a configured count of 0 or with one above MOTORS_MAX.
C13_TransactionsInRange ==
  /\ \A k \in 1..Len(tx_log) : tx_log[k] \in 0..(MOTORS_MAX - 1)
  /\ \A k \in 1..Len(i2c_pending) :
       i2c_pending[k].slot \in 0..(MOTORS_MAX - 1)

\* C16: however SetMotorSetpoint calls interleave with a chain, the bytes sent
\* in the transaction of a slot are those the slot held when the transaction
\* was issued, that is those of the last SetMotorSetpoint call for the slot
\* before the issue, and as many bytes are sent as the setpoint width in
\* force, 1 or 2.
C16_SentBytesAreThoseAtIssue ==
  (ChainActive /\ i2c_pending[1].slot < MOTORS_MAX) =>
    LET t == i2c_pending[1] IN
    /\ t.tx_length = setpoint_length_
    /\ t.tx_length \in { SIZEOF_UINT8, SIZEOF_UINT16 }
    /\ Len(i2c_sent) <= t.tx_length
    /\ \A k \in 1..Len(i2c_sent) : i2c_sent[k] = SetpointBytes(t.at_issue)[k]

\* ---------------------------------------------------------------------------
\* Properties of the negotiated capabilities

\* C17: no step of any operation clears a feature bit that is set or takes
\* the setpoint width from 2 back to 1; and after every step the extended
\* status bit is set whenever the width is 2 and the v3 bit is set whenever
\* the 20 kHz bit is.
C17_CapabilitiesNeverShrink ==
  [][ /\ BitAnd(blc_feature_bitfield_, blc_feature_bitfield_')
           = blc_feature_bitfield_
      /\ setpoint_length_ = SIZEOF_UINT16 => setpoint_length_' = SIZEOF_UINT16
      /\ setpoint_length_' = SIZEOF_UINT16 =>
           HasBit(blc_feature_bitfield_', BLC_FEATURE_EXTENDED_STATUS)
      /\ HasBit(blc_feature_bitfield_', BLC_FEATURE_20KHz) =>
           HasBit(blc_feature_bitfield_', BLC_FEATURE_V3) ]_vars

\* A pass whose reference is a v2 controller has ended on a driver that had
\* all three features before it, and has kept them and the width of 2.
C17_Witness ==
  /\ PassDone
  /\ blc_status_code = BLC_STATUS_V2_READY
  /\ feature0 = 7
  /\ blc_feature_bitfield_ = 7
  /\ setpoint_length_ = SIZEOF_UINT16

====
